---- MODULE Spec2Model ----
(***************************************************************************)
(* Classifying_TESS_flares_with_CNNs.ipynb as a state machine.             *)
(*                                                                         *)
(* The notebook is a script of code cells over one kernel state: the       *)
(* dataset ds, the index lists idx_*, the Keras model cnn, the file        *)
(* flare_model.h5, the pretrained model, the light-curve collections lcs   *)
(* and the stella predictions.  Two helpers are defined in it,             *)
(* remove_nans and plot_confusion_matrix.                                  *)
(*                                                                         *)
(*   Spec         the notebook run top to bottom (Run All)                 *)
(*   SpecCalls    the two helpers called on arbitrary arguments            *)
(*   SpecSession  the define / compile / fit / save cells re-run by hand   *)
(***************************************************************************)
EXTENDS Integers, Sequences, FiniteSets

VARIABLES
    pc,               \* the cell (or call) that runs next
    log,              \* the cells completed so far, in order
    failed,           \* the cell whose exception ended the run, or "none"
    taken,            \* <<cell, outcome>> of every data-dependent `if` evaluated
    ds,               \* stella.FlareDataSet: the six arrays of the three splits
    idx,              \* idx_train, idx_test, idx_val
    cnn,              \* the Keras model object bound to the name cnn
    cnn_file,         \* the content of flare_model.h5
    pretrained_model, \* the model loaded from the archive
    fig,              \* what the last plot_confusion_matrix call computed and drew
    lcs,              \* per target, the downloaded light-curve collection
    predicted,        \* the cnn_stella.predict calls made, in order
    input_data,       \* SpecCalls: the caller's array handed to remove_nans
    ret,              \* SpecCalls: what remove_nans returned
    args0             \* SpecCalls: the arguments as they were before the calls

vars == <<pc, log, failed, taken, ds, idx, cnn, cnn_file, pretrained_model,
          fig, lcs, predicted, input_data, ret, args0>>

-----------------------------------------------------------------------------
(* Bounds of the model *)

\* examples in an array handed to remove_nans (SpecCalls)
MaxN == 3
\* cadences per example window (200 in the tutorial's data)
Cadences == 2
\* examples per split of the dataset the notebook loads (Spec)
MaxSplit == 2
\* examples in the test set handed to plot_confusion_matrix (SpecCalls)
MaxEval == 4
\* targets in ticids (8 in the notebook)
NumTargets == 2
\* light curves one search can return
MaxLc == 2
\* cells re-run in one interactive session (SpecSession)
MaxRuns == 6

(* Program constants *)

\* input_shape = (np.shape(ds.train_data)[1], 1): one channel
Channels == 1
\* nb_epoch = 20
nb_epoch == 20
\* predictions > 0.5, in hundredths
Threshold == 50

-----------------------------------------------------------------------------
(* Data *)

NaN == "NaN"
\* a flux value: missing, or a number (normalised flux)
Values == {NaN, "1.0"}

\* one example window input_data[k, :, :], of shape (Cadences, Channels)
Slices == [1..Cadences -> [1..Channels -> Values]]

\* a window without gaps, and one whose first cadence is missing
CleanSlice == [r \in 1..Cadences |-> [c \in 1..Channels |-> "1.0"]]
GapSlice == [r \in 1..Cadences |-> [c \in 1..Channels |-> IF r = 1 THEN NaN ELSE "1.0"]]

Labels == {0, 1}

\* An example carries, beside its window x, two history fields that the code
\* does not read: k, its position in the array as loaded, and y0, the label
\* paired with it as loaded.

\* the arrays of n examples over the given windows, labelled by one of `labelings`
Arrays(n, slices, labelings) ==
    { [i \in 1..n |-> [k |-> i - 1, y0 |-> y[i], x |-> s[i]]] :
        s \in [1..n -> slices], y \in labelings }

\* every labelling of n examples; the one alternating no flare / flare; all no flare
AnyLabels(n) == [1..n -> Labels]
AlternatingLabels(n) == {[i \in 1..n |-> (i - 1) % 2]}
NoFlareLabels(n) == {[i \in 1..n |-> 0]}

LabelsOf(data) == [i \in 1..Len(data) |-> data[i].y0]

-----------------------------------------------------------------------------
(* remove_nans *)

\* input_data[k, :, :] flattened in row-major order
Flatten(slice) ==
    [i \in 1..(Cadences * Channels) |->
        slice[((i - 1) \div Channels) + 1][((i - 1) % Channels) + 1]]

IsNaNValue(v) == v = NaN

\* a[np.isnan(a)]: the 1-D array of the elements selected by the boolean mask
MaskedByIsNaN(slice) == SelectSeq(Flatten(slice), IsNaNValue)

\* np.shape(input_data)[0]
Shape0(data) == Len(data)

RECURSIVE remove_nans_loop(_, _, _)
remove_nans_loop(data, k, acc) ==
    IF k >= Shape0(data) THEN acc
    ELSE remove_nans_loop(data, k + 1,
            IF Len(MaskedByIsNaN(data[k + 1].x)) = 0 THEN Append(acc, k) ELSE acc)

\* remove_nans skipping index 0 (range(1, n))
remove_nans_from_one(data) ==
    [raised |-> FALSE, idx |-> remove_nans_loop(data, 1, <<>>), input_data |-> data]

\* remove_nans reading input_data[0] before the loop (IndexError on an empty array)
remove_nans_peek(data) ==
    [raised |-> Shape0(data) = 0,
     idx |-> IF Shape0(data) = 0 THEN <<>> ELSE remove_nans_loop(data, 0, <<>>),
     input_data |-> data]

\* remove_nans testing only the last cadence of each window (input_data[k, -1, :])
remove_nans_last_cadence(data) ==
    LET Keep(k) == \A c \in 1..Channels : data[k + 1].x[Cadences][c] # NaN
    IN  [raised |-> FALSE,
         idx |-> SelectSeq([i \in 1..Shape0(data) |-> i - 1], Keep),
         input_data |-> data]

\* remove_nans building its list with idx.insert(0, k)
remove_nans_prepend(data) ==
    LET fwd == remove_nans_loop(data, 0, <<>>)
    IN  [raised |-> FALSE,
         idx |-> [i \in 1..Len(fwd) |-> fwd[Len(fwd) + 1 - i]],
         input_data |-> data]

\* The call remove_nans(input_data): whether it raised, the list it returned,
\* and the caller's array as the call left it.
remove_nans(data) ==
    [raised |-> FALSE, idx |-> remove_nans_loop(data, 0, <<>>), input_data |-> data]

\* the outcomes of the `if` of remove_nans over one array
IfOutcomes(data) == { Len(MaskedByIsNaN(data[i].x)) = 0 : i \in 1..Len(data) }

\* a[idx] with an index list: the IndexError test, and the selected elements
IndexError(arr, ix) == \E i \in 1..Len(ix) : ix[i] < 0 \/ ix[i] >= Len(arr)
Take(arr, ix) == [i \in 1..Len(ix) |-> arr[ix[i] + 1]]

-----------------------------------------------------------------------------
(* plot_confusion_matrix *)

\* what a model's sigmoid output can be, in hundredths: below, at and above 0.5
Probs == {10, 50, 90}

\* (predictions >= 0.5): the comparison made inclusive
Binarize_inclusive(out) == [i \in 1..Len(out) |-> IF out[i] >= Threshold THEN 1 ELSE 0]

\* (predictions > 0.5).astype('int32')
Binarize(out) == [i \in 1..Len(out) |-> IF out[i] > Threshold THEN 1 ELSE 0]

\* metrics.confusion_matrix(y_true, y_pred, labels=[0, 1]): cm[i][j] counts the
\* samples of true class i predicted as class j
RECURSIVE confusion_matrix_loop(_, _, _, _)
confusion_matrix_loop(y_true, y_pred, n, cm) ==
    IF n > Len(y_true) THEN cm
    ELSE confusion_matrix_loop(y_true, y_pred, n + 1,
            [cm EXCEPT ![y_true[n]][y_pred[n]] = @ + 1])

confusion_matrix(y_true, y_pred) ==
    confusion_matrix_loop(y_true, y_pred, 1, [i \in 0..1 |-> [j \in 0..1 |-> 0]])

RECURSIVE GCD(_, _)
GCD(a, b) == IF b = 0 THEN a ELSE GCD(b, a % b)

\* A float that is a ratio of two counts: nan, or num/den in lowest terms.
NaNFloat == [nan |-> TRUE, num |-> 0, den |-> 1]
Float(a, b) == [nan |-> FALSE, num |-> a \div GCD(a, b), den |-> b \div GCD(a, b)]

\* a division that returns 0.0 for an empty row
Divide_guarded(a, b) == IF b = 0 THEN Float(0, 1) ELSE Float(a, b)

\* numpy's float division of a count by a row sum: 0.0/0.0 is nan (a warning,
\* no exception); a count never exceeds its row sum, so x/0.0 has x = 0
Divide(a, b) == IF b = 0 THEN NaNFloat ELSE Float(a, b)

\* cm.sum(axis=1)
RowSum(cm, i) == cm[i][0] + cm[i][1]

\* cm / cm.sum(): every entry divided by the number of samples
Normalize_by_total(cm) ==
    [i \in 0..1 |-> [j \in 0..1 |-> Divide(cm[i][j], RowSum(cm, 0) + RowSum(cm, 1))]]

\* cm / cm.sum(axis=1)[:, np.newaxis]
Normalize(cm) == [i \in 0..1 |-> [j \in 0..1 |-> Divide(cm[i][j], RowSum(cm, i))]]

\* the call with the labels overwritten by the predictions
plot_confusion_matrix_clobber(model, data, labels, out) ==
    LET predictions == Binarize(out)
        cm == confusion_matrix(labels, predictions)
    IN  [model |-> model, raw |-> out, predictions |-> predictions,
         cm |-> cm, cm_norm |-> Normalize(cm),
         xticklabels |-> [p \in 0..1 |-> IF p = 0 THEN "Flare" ELSE "No Flare"],
         yticklabels |-> [p \in 0..1 |-> IF p = 0 THEN "Flare" ELSE "No Flare"],
         input_data |-> data, input_labels |-> predictions]

\* The call plot_confusion_matrix(model, data, labels), out being what
\* model.predict(data) returned: the figure's content, and the three arguments
\* as the call left them.
plot_confusion_matrix(model, data, labels, out) ==
    LET predictions == Binarize(out)
        cm == confusion_matrix(labels, predictions)
    IN  [model |-> model, raw |-> out, predictions |-> predictions,
         cm |-> cm, cm_norm |-> Normalize(cm),
         xticklabels |-> [p \in 0..1 |-> IF p = 0 THEN "Flare" ELSE "No Flare"],
         yticklabels |-> [p \in 0..1 |-> IF p = 0 THEN "Flare" ELSE "No Flare"],
         input_data |-> data, input_labels |-> labels]

NoFigure ==
    [drawn |-> FALSE, by |-> "none", raw |-> <<>>, predictions |-> <<>>,
     cm |-> [i \in 0..1 |-> [j \in 0..1 |-> 0]],
     cm_norm |-> [i \in 0..1 |-> [j \in 0..1 |-> NaNFloat]],
     xticklabels |-> [p \in 0..1 |-> ""], yticklabels |-> [p \in 0..1 |-> ""],
     input_data |-> <<>>, input_labels |-> <<>>]

\* the figure a call leaves on screen
Figure(by, r) ==
    [drawn |-> TRUE, by |-> by, raw |-> r.raw, predictions |-> r.predictions,
     cm |-> r.cm, cm_norm |-> r.cm_norm,
     xticklabels |-> r.xticklabels, yticklabels |-> r.yticklabels,
     input_data |-> r.input_data, input_labels |-> r.input_labels]

\* ax.matshow(cm_norm) and ax.text(j, i, ...): entry (i, j) of the matrix is
\* drawn at tick position i of the y axis and tick position j of the x axis
matshow_position(i, j) == [x |-> j, y |-> i]

-----------------------------------------------------------------------------
(* The Keras model *)

\* gen counts the Model(...) objects built so far; the weights of a model are
\* identified by the object and the number of epochs it has been trained for.
NoModel == [defined |-> FALSE, gen |-> 0, compiled |-> FALSE, epochs |-> 0]
NoFile == [exists |-> FALSE, gen |-> 0, epochs |-> 0]

\* cnn = Model(inputs=x_in, outputs=y_out): a new object, untrained
Model(old) == [defined |-> TRUE, gen |-> old.gen + 1, compiled |-> FALSE, epochs |-> 0]

\* cnn.compile(...): optimizer and loss are set, the weights stay
compile(m) == [m EXCEPT !.compiled = TRUE]

\* a fit that re-initialises the weights before training
fit_from_scratch(m) == [m EXCEPT !.epochs = nb_epoch]

\* cnn.fit(..., epochs=nb_epoch): trains the object in place
fit(m) == [m EXCEPT !.epochs = @ + nb_epoch]

\* cnn.save(cnn_file): the file holds the model's weights of that moment
save(m) == [exists |-> TRUE, gen |-> m.gen, epochs |-> m.epochs]

-----------------------------------------------------------------------------
(* The cells, in notebook order *)

CellOrder ==
    <<"download", "load", "filter", "visualize", "define", "compile", "fit", "save",
      "evaluate", "pretrained", "ticids", "lcdownload", "loadcnn", "inference">>

CellIndex(cell) == CHOOSE i \in 1..Len(CellOrder) : CellOrder[i] = cell

\* the cell below, with the save cell passed over
Succ_skip_save(cell) ==
    IF cell = "fit" THEN "evaluate"
    ELSE IF CellIndex(cell) = Len(CellOrder) THEN "done"
    ELSE CellOrder[CellIndex(cell) + 1]

\* the cell below `cell`, "done" after the last one
Succ(cell) ==
    IF CellIndex(cell) = Len(CellOrder) THEN "done" ELSE CellOrder[CellIndex(cell) + 1]

\* the cell completes: the kernel moves on to the cell below
Complete(cell) ==
    /\ pc' = Succ(cell)
    /\ log' = Append(log, cell)
    /\ failed' = failed

\* an exception caught and ignored: the run goes on with the cell below
Raise_swallowed(cell) ==
    /\ pc' = Succ(cell)
    /\ log' = log
    /\ failed' = cell

\* An exception leaves the cell: no cell has a try/except, so it reaches the
\* kernel, which stops the run.
Raise(cell) ==
    /\ pc' = "aborted"
    /\ log' = log
    /\ failed' = cell

EmptyDs ==
    [train_data |-> <<>>, train_labels |-> <<>>, test_data |-> <<>>,
     test_labels |-> <<>>, val_data |-> <<>>, val_labels |-> <<>>]
NoIdx == [train |-> <<>>, test |-> <<>>, val |-> <<>>]

\* The arrays of one split that the archive can hold: up to MaxSplit windows,
\* each clean or with a gap, labelled no flare / flare in turn.
SplitArrays ==
    UNION { Arrays(n, {CleanSlice, GapSlice}, AlternatingLabels(n)) : n \in 0..MaxSplit }

\* what stella.FlareDataSet loads from three such arrays
Dataset(a, b, c) ==
    [train_data |-> a, train_labels |-> LabelsOf(a),
     test_data |-> b, test_labels |-> LabelsOf(b),
     val_data |-> c, val_labels |-> LabelsOf(c)]

\* tarfile.open(download_file(file_url, cache=True)); extractall; close
CellDownload ==
    /\ pc = "download"
    /\ \/ Complete("download")
       \/ Raise("download")
    /\ UNCHANGED <<taken, ds, idx, cnn, cnn_file, pretrained_model, fig, lcs,
                   predicted, input_data, ret, args0>>

\* ds = stella.FlareDataSet(fn_dir=data_dir, catalog=...)
CellLoad ==
    /\ pc = "load"
    /\ \/ /\ \E a \in SplitArrays, b \in SplitArrays, c \in SplitArrays :
                ds' = Dataset(a, b, c)
          /\ Complete("load")
       \/ /\ ds' = ds
          /\ Raise("load")
    /\ UNCHANGED <<taken, idx, cnn, cnn_file, pretrained_model, fig, lcs,
                   predicted, input_data, ret, args0>>

\* the six assignments with the train labels indexed by idx_test
SubsetSplits_crossed(d, ix) ==
    [raised |-> \/ IndexError(d.train_data, ix.train) \/ IndexError(d.train_labels, ix.test)
                \/ IndexError(d.test_data, ix.test) \/ IndexError(d.test_labels, ix.test)
                \/ IndexError(d.val_data, ix.val) \/ IndexError(d.val_labels, ix.val),
     ds |-> IF \/ IndexError(d.train_data, ix.train) \/ IndexError(d.train_labels, ix.test)
               \/ IndexError(d.test_data, ix.test) \/ IndexError(d.test_labels, ix.test)
               \/ IndexError(d.val_data, ix.val) \/ IndexError(d.val_labels, ix.val)
            THEN d
            ELSE [train_data |-> Take(d.train_data, ix.train),
                  train_labels |-> Take(d.train_labels, ix.test),
                  test_data |-> Take(d.test_data, ix.test),
                  test_labels |-> Take(d.test_labels, ix.test),
                  val_data |-> Take(d.val_data, ix.val),
                  val_labels |-> Take(d.val_labels, ix.val)]]

\* the subsetting with a check added: an empty index list raises
SubsetSplits_checked(d, ix) ==
    LET bad == \/ IndexError(d.train_data, ix.train) \/ IndexError(d.train_labels, ix.train)
               \/ IndexError(d.test_data, ix.test) \/ IndexError(d.test_labels, ix.test)
               \/ IndexError(d.val_data, ix.val) \/ IndexError(d.val_labels, ix.val)
               \/ Len(ix.train) = 0 \/ Len(ix.test) = 0 \/ Len(ix.val) = 0
    IN  [raised |-> bad,
         ds |-> IF bad THEN d
                ELSE [train_data |-> Take(d.train_data, ix.train),
                      train_labels |-> Take(d.train_labels, ix.train),
                      test_data |-> Take(d.test_data, ix.test),
                      test_labels |-> Take(d.test_labels, ix.test),
                      val_data |-> Take(d.val_data, ix.val),
                      val_labels |-> Take(d.val_labels, ix.val)]]

\* ds.train_data = ds.train_data[idx_train] ... ds.val_labels = ds.val_labels[idx_val]
SubsetSplits(d, ix) ==
    [raised |-> \/ IndexError(d.train_data, ix.train) \/ IndexError(d.train_labels, ix.train)
                \/ IndexError(d.test_data, ix.test) \/ IndexError(d.test_labels, ix.test)
                \/ IndexError(d.val_data, ix.val) \/ IndexError(d.val_labels, ix.val),
     ds |-> IF \/ IndexError(d.train_data, ix.train) \/ IndexError(d.train_labels, ix.train)
               \/ IndexError(d.test_data, ix.test) \/ IndexError(d.test_labels, ix.test)
               \/ IndexError(d.val_data, ix.val) \/ IndexError(d.val_labels, ix.val)
            THEN d
            ELSE [train_data |-> Take(d.train_data, ix.train),
                  train_labels |-> Take(d.train_labels, ix.train),
                  test_data |-> Take(d.test_data, ix.test),
                  test_labels |-> Take(d.test_labels, ix.test),
                  val_data |-> Take(d.val_data, ix.val),
                  val_labels |-> Take(d.val_labels, ix.val)]]

\* def remove_nans; idx_* = remove_nans(ds.*_data); the six subsetting assignments
CellFilter ==
    /\ pc = "filter"
    /\ LET rt == remove_nans(ds.train_data)
           rs == remove_nans(ds.test_data)
           rv == remove_nans(ds.val_data)
           ix == [train |-> rt.idx, test |-> rs.idx, val |-> rv.idx]
           d1 == [ds EXCEPT !.train_data = rt.input_data,
                            !.test_data = rs.input_data,
                            !.val_data = rv.input_data]
           sub == SubsetSplits(d1, ix)
       IN  /\ taken' = taken \cup
                ({"filter"} \X (IfOutcomes(ds.train_data) \cup IfOutcomes(ds.test_data)
                                    \cup IfOutcomes(ds.val_data)))
           /\ IF rt.raised \/ rs.raised \/ rv.raised
              THEN /\ ds' = ds /\ idx' = idx /\ Raise("filter")
              ELSE /\ idx' = ix
                   /\ ds' = sub.ds
                   /\ IF sub.raised THEN Raise("filter") ELSE Complete("filter")
    /\ UNCHANGED <<cnn, cnn_file, pretrained_model, fig, lcs,
                   predicted, input_data, ret, args0>>

\* example_ids = np.random.choice(len(ds.train_labels), 16) and the 16 plots:
\* np.random.choice raises ValueError when the training split is empty
CellVisualize ==
    /\ pc = "visualize"
    /\ IF Len(ds.train_labels) = 0
       THEN Raise("visualize")
       ELSE Complete("visualize")
    /\ UNCHANGED <<taken, ds, idx, cnn, cnn_file, pretrained_model, fig, lcs,
                   predicted, input_data, ret, args0>>

\* the architecture cell, ending in cnn = Model(inputs=x_in, outputs=y_out)
CellDefine ==
    /\ pc = "define"
    /\ cnn' = Model(cnn)
    /\ Complete("define")
    /\ UNCHANGED <<taken, ds, idx, cnn_file, pretrained_model, fig, lcs,
                   predicted, input_data, ret, args0>>

\* cnn.compile(loss=loss, optimizer=optimizer, metrics=fit_metrics); cnn.summary()
CellCompile ==
    /\ pc = "compile"
    /\ IF cnn.defined
       THEN cnn' = compile(cnn) /\ Complete("compile")
       ELSE cnn' = cnn /\ Raise("compile")
    /\ UNCHANGED <<taken, ds, idx, cnn_file, pretrained_model, fig, lcs,
                   predicted, input_data, ret, args0>>

\* history = cnn.fit(ds.train_data, ds.train_labels, ..., epochs=nb_epoch, ...)
\* Keras refuses a model that is not compiled; a fit that raises is taken to
\* raise before its first epoch.
CellFit ==
    /\ pc = "fit"
    /\ \/ /\ cnn.defined /\ cnn.compiled
          /\ cnn' = fit(cnn)
          /\ Complete("fit")
       \/ /\ cnn' = cnn
          /\ Raise("fit")
    /\ UNCHANGED <<taken, ds, idx, cnn_file, pretrained_model, fig, lcs,
                   predicted, input_data, ret, args0>>

\* cnn_file = 'flare_model.h5'; cnn.save(cnn_file)
CellSave ==
    /\ pc = "save"
    /\ IF cnn.defined
       THEN cnn_file' = save(cnn) /\ Complete("save")
       ELSE cnn_file' = cnn_file /\ Raise("save")
    /\ UNCHANGED <<taken, ds, idx, cnn, pretrained_model, fig, lcs,
                   predicted, input_data, ret, args0>>


\* plot_confusion_matrix(cnn, ds.test_data, ds.test_labels).  cnn.predict can
\* raise; metrics.confusion_matrix raises on arrays of different lengths.
CellEvaluate ==
    /\ pc = "evaluate"
    /\ \/ /\ cnn.defined
          /\ Len(ds.test_data) = Len(ds.test_labels)
          /\ \E out \in [1..Len(ds.test_data) -> Probs] :
                LET r == plot_confusion_matrix(cnn, ds.test_data, ds.test_labels, out)
                IN  /\ fig' = Figure("cnn", r)
                    /\ cnn' = r.model
                    /\ ds' = [ds EXCEPT !.test_data = r.input_data,
                                        !.test_labels = r.input_labels]
          /\ Complete("evaluate")
       \/ /\ UNCHANGED <<fig, cnn, ds>>
          /\ Raise("evaluate")
    /\ UNCHANGED <<taken, idx, cnn_file, pretrained_model, lcs,
                   predicted, input_data, ret, args0>>

NoPretrained == [loaded |-> FALSE]

\* pretrained_model = load_model(download_file(file_url, ...))
\* plot_confusion_matrix(pretrained_model, ds.test_data, ds.test_labels)
CellPretrained ==
    /\ pc = "pretrained"
    /\ \/ /\ Len(ds.test_data) = Len(ds.test_labels)
          /\ \E out \in [1..Len(ds.test_data) -> Probs] :
                LET r == plot_confusion_matrix([loaded |-> TRUE], ds.test_data,
                                               ds.test_labels, out)
                IN  /\ fig' = Figure("pretrained", r)
                    /\ pretrained_model' = r.model
                    /\ ds' = [ds EXCEPT !.test_data = r.input_data,
                                        !.test_labels = r.input_labels]
          /\ Complete("pretrained")
       \/ /\ pretrained_model' = [loaded |-> TRUE]
          /\ UNCHANGED <<fig, ds>>
          /\ Raise("pretrained")
       \/ /\ UNCHANGED <<fig, ds, pretrained_model>>
          /\ Raise("pretrained")
    /\ UNCHANGED <<taken, idx, cnn, cnn_file, lcs,
                   predicted, input_data, ret, args0>>

\* ticids = ['120461526', ...]: the targets, by their position in the list
ticids == [i \in 1..NumTargets |-> i]

CellTicids ==
    /\ pc = "ticids"
    /\ Complete("ticids")
    /\ UNCHANGED <<taken, ds, idx, cnn, cnn_file, pretrained_model, fig, lcs,
                   predicted, input_data, ret, args0>>

\* what search_lightcurve(...).download_all() leaves for one target: n light curves
Collection(target, n) == [j \in 1..n |-> [targetid |-> target, no |-> j]]

\* lcs = []; for name in ticids: lc = search_lightcurve(...); lc = lc.download_all();
\* lcs.append(lc).  A search or download that raises leaves the targets before it.
CellLcDownload ==
    /\ pc = "lcdownload"
    /\ \/ /\ \E c \in [1..NumTargets -> 0..MaxLc] :
                lcs' = [i \in 1..NumTargets |-> Collection(ticids[i], c[i])]
          /\ Complete("lcdownload")
       \/ /\ \E m \in 0..(NumTargets - 1) : \E c \in [1..m -> 0..MaxLc] :
                lcs' = [i \in 1..m |-> Collection(ticids[i], c[i])]
          /\ Raise("lcdownload")
    /\ UNCHANGED <<taken, ds, idx, cnn, cnn_file, pretrained_model, fig,
                   predicted, input_data, ret, args0>>

\* cnn_stella = stella.ConvNN(output_dir=data_dir, ds=ds)
CellLoadCnn ==
    /\ pc = "loadcnn"
    /\ predicted' = <<>>
    /\ Complete("loadcnn")
    /\ UNCHANGED <<taken, ds, idx, cnn, cnn_file, pretrained_model, fig, lcs,
                   input_data, ret, args0>>

\* the light curve handed to predict for the last target instead of the first
PickLc_last(coll) == coll[Len(coll)]

\* if len(lc)>0: lc = lc[0]
PickLc(coll) == coll[1]

\* for i, lc in enumerate(lcs): if len(lc)>0: lc = lc[0];
\*     cnn_stella.predict(cnn_file, times=lc.time.value, ...); the scatter plot
\* The first m targets are predicted.  The loop ends there when m is the number
\* of targets; otherwise target m+1 raised: its collection holds no light
\* curve (nothing with .time to predict on), or predict itself raised.
CellInference ==
    /\ pc = "inference"
    /\ \E m \in 0..Len(lcs) :
        /\ \A i \in 1..m : Len(lcs[i]) > 0
        /\ m > 0 => cnn_file.exists
        /\ predicted' = [i \in 1..m |->
                            [target |-> i, lc |-> PickLc(lcs[i]), model |-> cnn_file]]
        /\ taken' = taken \cup {<<"inference", TRUE>> : i \in 1..m}
        /\ IF m = Len(lcs) THEN Complete("inference") ELSE Raise("inference")
    /\ UNCHANGED <<ds, idx, cnn, cnn_file, pretrained_model, fig, lcs,
                   input_data, ret, args0>>

-----------------------------------------------------------------------------
(* The notebook run top to bottom *)

NoArgs == [input_data |-> <<>>, test_data |-> <<>>, test_labels |-> <<>>, cnn |-> NoModel]
NoRet == [raised |-> FALSE, idx |-> <<>>]

Init ==
    /\ pc = "download"
    /\ log = <<>>
    /\ failed = "none"
    /\ taken = {}
    /\ ds = EmptyDs
    /\ idx = NoIdx
    /\ cnn = NoModel
    /\ cnn_file = NoFile
    /\ pretrained_model = NoPretrained
    /\ fig = NoFigure
    /\ lcs = <<>>
    /\ predicted = <<>>
    /\ input_data = <<>>
    /\ ret = NoRet
    /\ args0 = NoArgs

Next ==
    \/ CellDownload
    \/ CellLoad
    \/ CellFilter
    \/ CellVisualize
    \/ CellDefine
    \/ CellCompile
    \/ CellFit
    \/ CellSave
    \/ CellEvaluate
    \/ CellPretrained
    \/ CellTicids
    \/ CellLcDownload
    \/ CellLoadCnn
    \/ CellInference

Spec == Init /\ [][Next]_vars

-----------------------------------------------------------------------------
(* The two helpers called on arbitrary arguments *)

\* the 3-D arrays handed to remove_nans: up to MaxN windows, NaNs anywhere
CallArrays == UNION { Arrays(n, Slices, NoFlareLabels(n)) : n \in 0..MaxN }

\* the NaN-free test sets handed to plot_confusion_matrix, with their labels
EvalArrays == UNION { Arrays(n, {CleanSlice}, AnyLabels(n)) : n \in 0..MaxEval }

\* the kernel just before the evaluation cell of a run that trained one model
TrainedModel == fit(compile(Model(NoModel)))

\* idx = remove_nans(input_data), input_data being the caller's array
Call_remove_nans ==
    /\ pc = "call_remove_nans"
    /\ LET r == remove_nans(input_data)
       IN  /\ ret' = [raised |-> r.raised, idx |-> r.idx]
           /\ input_data' = r.input_data
    /\ pc' = "returned"
    /\ UNCHANGED <<log, failed, taken, ds, idx, cnn, cnn_file, pretrained_model,
                   fig, lcs, predicted, args0>>

InitCalls ==
    /\ log = <<>>
    /\ failed = "none"
    /\ taken = {}
    /\ idx = NoIdx
    /\ pretrained_model = NoPretrained
    /\ fig = NoFigure
    /\ lcs = <<>>
    /\ predicted = <<>>
    /\ ret = NoRet
    /\ \/ /\ pc = "call_remove_nans"
          /\ input_data \in CallArrays
          /\ ds = EmptyDs
          /\ cnn = NoModel
          /\ cnn_file = NoFile
          /\ args0 = [NoArgs EXCEPT !.input_data = input_data]
       \/ /\ pc = "evaluate"
          /\ input_data = <<>>
          /\ \E a \in EvalArrays :
                ds = [EmptyDs EXCEPT !.test_data = a, !.test_labels = LabelsOf(a)]
          /\ cnn = TrainedModel
          /\ cnn_file = save(TrainedModel)
          /\ args0 = [input_data |-> <<>>, test_data |-> ds.test_data,
                      test_labels |-> ds.test_labels, cnn |-> cnn]

NextCalls ==
    \/ Call_remove_nans
    \/ CellEvaluate
    \/ CellPretrained

SpecCalls == InitCalls /\ [][NextCalls]_vars

-----------------------------------------------------------------------------
(* The model cells re-run by hand, in any order *)

\* Re-running a cell whose names are not bound yet, or fit on a model that is
\* not compiled, raises and changes nothing: it is no step here.

SessionDefine ==
    /\ pc = "session"
    /\ Len(log) < MaxRuns
    /\ cnn' = Model(cnn)
    /\ log' = Append(log, "define")
    /\ UNCHANGED <<pc, failed, taken, ds, idx, cnn_file, pretrained_model, fig, lcs,
                   predicted, input_data, ret, args0>>

SessionCompile ==
    /\ pc = "session"
    /\ Len(log) < MaxRuns
    /\ cnn.defined
    /\ cnn' = compile(cnn)
    /\ log' = Append(log, "compile")
    /\ UNCHANGED <<pc, failed, taken, ds, idx, cnn_file, pretrained_model, fig, lcs,
                   predicted, input_data, ret, args0>>

SessionFit ==
    /\ pc = "session"
    /\ Len(log) < MaxRuns
    /\ cnn.defined /\ cnn.compiled
    /\ cnn' = fit(cnn)
    /\ log' = Append(log, "fit")
    /\ UNCHANGED <<pc, failed, taken, ds, idx, cnn_file, pretrained_model, fig, lcs,
                   predicted, input_data, ret, args0>>

SessionSave ==
    /\ pc = "session"
    /\ Len(log) < MaxRuns
    /\ cnn.defined
    /\ cnn_file' = save(cnn)
    /\ log' = Append(log, "save")
    /\ UNCHANGED <<pc, failed, taken, ds, idx, cnn, pretrained_model, fig, lcs,
                   predicted, input_data, ret, args0>>

\* the kernel after the data cells: a loaded and filtered dataset, no model yet
InitSession ==
    /\ pc = "session"
    /\ log = <<>>
    /\ failed = "none"
    /\ taken = {}
    /\ \E a \in Arrays(1, {CleanSlice}, AnyLabels(1)) : ds = Dataset(a, a, a)
    /\ idx = [train |-> <<0>>, test |-> <<0>>, val |-> <<0>>]
    /\ cnn = NoModel
    /\ cnn_file = NoFile
    /\ pretrained_model = NoPretrained
    /\ fig = NoFigure
    /\ lcs = <<>>
    /\ predicted = <<>>
    /\ input_data = <<>>
    /\ ret = NoRet
    /\ args0 = NoArgs

NextSession ==
    \/ SessionDefine
    \/ SessionCompile
    \/ SessionFit
    \/ SessionSave

SpecSession == InitSession /\ [][NextSession]_vars

-----------------------------------------------------------------------------
(* Properties *)

InLog(cell) == \E i \in 1..Len(log) : log[i] = cell
Occurs(v, seq) == \E i \in 1..Len(seq) : seq[i] = v
NaNFree(example) ==
    \A r \in 1..Cadences : \A c \in 1..Channels : example.x[r][c] # NaN

\* C1: remove_nans returns index k if and only if the slice input_data[k,:,:]
\* holds no NaN: no index of a slice with a NaN is returned, every index of a
\* NaN-free slice is, and nothing else is.
C1_FilterSoundAndComplete ==
    pc = "returned" =>
        /\ \A k \in 0..(Len(args0.input_data) - 1) :
              Occurs(k, ret.idx) <=> NaNFree(args0.input_data[k + 1])
        /\ \A i \in 1..Len(ret.idx) : ret.idx[i] \in 0..(Len(args0.input_data) - 1)

\* remove_nans has returned from an array with a NaN-free slice after a slice with a NaN
C1_Witness ==
    /\ pc = "returned"
    /\ Len(args0.input_data) >= 2
    /\ ~NaNFree(args0.input_data[1])
    /\ NaNFree(args0.input_data[2])
    /\ ret.idx # <<>>

\* C2: after the filtering cell, in each split the data and the labels have the
\* same length, the label at position i is the label the example now at i was
\* loaded with, and the example at i is the one idx_<split>[i] names.
C2_Aligned ==
    InLog("filter") =>
        /\ Len(ds.train_data) = Len(ds.train_labels)
        /\ Len(ds.test_data) = Len(ds.test_labels)
        /\ Len(ds.val_data) = Len(ds.val_labels)
        /\ \A i \in 1..Len(ds.train_data) :
              ds.train_labels[i] = ds.train_data[i].y0 /\ ds.train_data[i].k = idx.train[i]
        /\ \A i \in 1..Len(ds.test_data) :
              ds.test_labels[i] = ds.test_data[i].y0 /\ ds.test_data[i].k = idx.test[i]
        /\ \A i \in 1..Len(ds.val_data) :
              ds.val_labels[i] = ds.val_data[i].y0 /\ ds.val_data[i].k = idx.val[i]

\* the filter has moved the second training example to the front, and the
\* test split kept other positions than the training split
C2_Witness ==
    /\ InLog("filter")
    /\ idx.train = <<1>>
    /\ ds.train_labels = <<1>>
    /\ idx.test = <<0, 1>>
    /\ ds.test_labels = <<0, 1>>

Zero == [nan |-> FALSE, num |-> 0, den |-> 1]
One == [nan |-> FALSE, num |-> 1, den |-> 1]

\* C3: when both classes occur in the true labels and the thresholded
\* predictions equal the true labels, the row-normalized matrix is the identity.
C3_PerfectIsIdentity ==
    (/\ fig.drawn
     /\ Occurs(0, fig.input_labels) /\ Occurs(1, fig.input_labels)
     /\ fig.predictions = fig.input_labels)
    => /\ fig.cm_norm[0][0] = One /\ fig.cm_norm[0][1] = Zero
       /\ fig.cm_norm[1][0] = Zero /\ fig.cm_norm[1][1] = One

\* the matrix drawn for the labels [0,1,0,1] and the same predictions
C3_Witness ==
    /\ fig.drawn
    /\ fig.input_labels = <<0, 1, 0, 1>>
    /\ fig.predictions = <<0, 1, 0, 1>>

\* C4: on an array whose first dimension is zero, remove_nans returns the empty
\* list and does not raise.
C4_EmptyArray ==
    (pc = "returned" /\ Len(args0.input_data) = 0) => (ret.idx = <<>> /\ ~ret.raised)

\* remove_nans has returned from an array of no examples
C4_Witness == pc = "returned" /\ Len(args0.input_data) = 0

\* C5: when a class has no true example, its row is divided by a row sum of
\* zero and nothing guards it: the call completes with nan in that row.
C5_EmptyClassRowIsNaN ==
    \A i \in 0..1 :
        (fig.drawn /\ ~Occurs(i, fig.input_labels))
        => (RowSum(fig.cm, i) = 0 /\ fig.cm_norm[i][0].nan /\ fig.cm_norm[i][1].nan)

\* a matrix was drawn for a non-empty test set without a flare
C5_Witness ==
    /\ fig.drawn
    /\ Len(fig.input_labels) >= 2
    /\ ~Occurs(1, fig.input_labels)


\* the cell the kernel runs next when nothing has raised
Expected == IF Len(log) = Len(CellOrder) THEN "done" ELSE CellOrder[Len(log) + 1]

\* C6 (as amended): the cells run strictly in notebook order, each one after
\* the one above it has completed; none is skipped, repeated or reordered,
\* whatever the data, and a cell that raises ends the run.
C6_InOrder ==
    /\ Len(log) <= Len(CellOrder)
    /\ log = SubSeq(CellOrder, 1, Len(log))
    /\ pc = IF failed = "none" THEN Expected ELSE "aborted"

\* the run reached its end, and the `if` of the filtering step went both ways in it
C6_Witness ==
    /\ pc = "done"
    /\ <<"filter", TRUE>> \in taken
    /\ <<"filter", FALSE>> \in taken

\* C6 (as claimed): the cells run in notebook order and no step takes a
\* data-dependent alternative path: no `if` of a step goes one way for one
\* example and the other way for another.
C6_NoDataDependentPath ==
    /\ C6_InOrder
    /\ \A cell \in {"filter", "inference"} :
          ~(<<cell, TRUE>> \in taken /\ <<cell, FALSE>> \in taken)

\* C7: an exception in a cell aborts the run: the kernel stops at that cell,
\* the cell is not recorded as completed, and from then on nothing runs, neither
\* the failed cell again nor any cell below it.
C7_FailureAborts ==
    [][/\ failed = "none"
       /\ failed' # "none" => (pc' = "aborted" /\ failed' = pc /\ log' = log)]_vars

\* the run was aborted by the pretrained-model cell after the trained model was evaluated
C7_Witness ==
    /\ failed = "pretrained"
    /\ pc = "aborted"
    /\ InLog("evaluate")
    /\ ~InLog("pretrained")

Last(seq) == seq[Len(seq)]

\* C8: fit trains the model object in place, so a fit that follows a fit adds
\* its epochs to those already trained; the definition cell binds a new,
\* untrained model and compile keeps the weights, so define and compile reset
\* the model to epoch 0; save writes the weights the model has at that moment.
C8_TrainingResumes ==
    [][log' # log =>
        /\ Last(log') = "fit" =>
              (cnn'.gen = cnn.gen /\ cnn'.epochs = cnn.epochs + nb_epoch
               /\ cnn_file' = cnn_file)
        /\ Last(log') = "define" =>
              (cnn'.gen > cnn.gen /\ cnn'.epochs = 0 /\ cnn_file' = cnn_file)
        /\ Last(log') = "compile" =>
              (cnn'.gen = cnn.gen /\ cnn'.epochs = cnn.epochs /\ cnn_file' = cnn_file)
        /\ Last(log') = "save" =>
              (cnn' = cnn /\ cnn_file'.exists
               /\ cnn_file'.gen = cnn.gen /\ cnn_file'.epochs = cnn.epochs)]_vars

\* two fits in a row, a save of the result, and then the model redefined:
\* the file holds 40 epochs of the first model, the new model none
C8_Witness ==
    /\ log = <<"define", "compile", "fit", "fit", "save", "define">>
    /\ cnn.gen = 2 /\ cnn.epochs = 0
    /\ cnn_file.gen = 1 /\ cnn_file.epochs = 2 * nb_epoch

\* C9: remove_nans leaves the array it is given as it was; plot_confusion_matrix
\* leaves the model, the data and the labels as they were, so the pretrained
\* model is evaluated on the test set the trained model was evaluated on.
C9_ArgumentsUnchanged ==
    /\ pc = "returned" => input_data = args0.input_data
    /\ fig.drawn =>
          /\ ds.test_data = args0.test_data
          /\ ds.test_labels = args0.test_labels
          /\ cnn = args0.cnn
          /\ fig.input_data = args0.test_data
          /\ fig.input_labels = args0.test_labels
    /\ fig.by = "pretrained" => pretrained_model.loaded

\* the pretrained model was evaluated after the trained one, on labels its
\* predictions differ from
C9_Witness ==
    /\ fig.by = "pretrained"
    /\ InLog("evaluate") /\ InLog("pretrained")
    /\ Len(fig.input_labels) >= 2
    /\ fig.predictions # fig.input_labels

TrueCount(i) == Cardinality({n \in 1..Len(fig.input_labels) : fig.input_labels[n] = i})
PairCount(i, j) ==
    Cardinality({n \in 1..Len(fig.input_labels) :
                    fig.input_labels[n] = i /\ fig.predictions[n] = j})

\* C10: an output becomes class 1 exactly when it is greater than 0.5 (0.5
\* itself becomes class 0); entry (i, j) of the normalized matrix is the number
\* of examples of true class i predicted j over the number of true class i,
\* and a row with a true example sums to 1.
C10_ThresholdAndRows ==
    fig.drawn =>
        /\ Len(fig.predictions) = Len(fig.raw)
        /\ \A n \in 1..Len(fig.raw) :
              /\ fig.raw[n] > 50 => fig.predictions[n] = 1
              /\ fig.raw[n] <= 50 => fig.predictions[n] = 0
        /\ \A i \in 0..1 : TrueCount(i) > 0 =>
              /\ \A j \in 0..1 :
                    /\ ~fig.cm_norm[i][j].nan
                    /\ fig.cm_norm[i][j].num * TrueCount(i)
                          = PairCount(i, j) * fig.cm_norm[i][j].den
              /\ fig.cm_norm[i][0].num * fig.cm_norm[i][1].den
                    + fig.cm_norm[i][1].num * fig.cm_norm[i][0].den
                 = fig.cm_norm[i][0].den * fig.cm_norm[i][1].den

\* a flare scored exactly 0.5 was counted as predicted 0, in a row that splits
\* one third to two thirds
C10_Witness ==
    /\ fig.drawn
    /\ \E n \in 1..Len(fig.raw) :
          fig.raw[n] = 50 /\ fig.input_labels[n] = 1 /\ fig.predictions[n] = 0
    /\ fig.cm_norm[1][0] = [nan |-> FALSE, num |-> 1, den |-> 3]
    /\ fig.cm_norm[1][1] = [nan |-> FALSE, num |-> 2, den |-> 3]

\* the three splits' data arrays
SplitData(d) == <<d.train_data, d.test_data, d.val_data>>
SplitLabels(d) == <<d.train_labels, d.test_labels, d.val_labels>>

\* C11: from the completion of the filtering step on, in every later state, no
\* example of the training, validation or test split holds a NaN, and each
\* split holds exactly the NaN-free examples of its contents as loaded (in
\* their order, each with its label): the filtering step leaves exactly them,
\* and no later step changes the dataset.
C11_FilteredForGood ==
    [][ /\ (pc = "filter" /\ pc' = Succ("filter")) =>
              \A s \in 1..3 :
                  /\ SplitData(ds')[s] = SelectSeq(SplitData(ds)[s], NaNFree)
                  /\ SplitLabels(ds')[s] = LabelsOf(SelectSeq(SplitData(ds)[s], NaNFree))
        /\ InLog("filter") => ds' = ds
        /\ InLog("filter")' =>
              \A s \in 1..3 : \A i \in 1..Len(SplitData(ds')[s]) :
                  NaNFree(SplitData(ds')[s][i])
      ]_vars

\* after training and saving, the training split holds the one NaN-free
\* example of the two it was loaded with
C11_Witness ==
    /\ InLog("save")
    /\ <<"filter", FALSE>> \in taken
    /\ Len(ds.train_data) = 1
    /\ ds.train_data[1].k = 1
    /\ NaNFree(ds.train_data[1])

SplitIdx(ix) == <<ix.train, ix.test, ix.val>>
AllNaN(data) == \A i \in 1..Len(data) : ~NaNFree(data[i])

\* C12: when every example of a split holds a NaN, the filtering step neither
\* raises nor notices: remove_nans returns the empty list for that split, the
\* split's data and labels both become empty, and the run goes on to the step
\* below with the empty split.
C12_AllNaNSplitGoesThrough ==
    [][ pc = "filter" =>
            \A s \in 1..3 : AllNaN(SplitData(ds)[s]) =>
                /\ pc' = Succ("filter")
                /\ failed' = failed
                /\ InLog("filter")'
                /\ SplitIdx(idx')[s] = <<>>
                /\ SplitData(ds')[s] = <<>>
                /\ SplitLabels(ds')[s] = <<>>
      ]_vars

\* the test split was loaded with nothing but NaN examples (the other two
\* splits kept all they had, so the example the `if` rejected was a test
\* example), it is empty, and the run went on through training and saving
C12_Witness ==
    /\ InLog("save")
    /\ <<"filter", FALSE>> \in taken
    /\ Len(idx.train) = MaxSplit /\ Len(idx.val) = MaxSplit
    /\ idx.test = <<>>
    /\ ds.test_data = <<>> /\ ds.test_labels = <<>>

C14_IndicesIncreasing ==
    pc = "returned" =>
        /\ \A i \in 1..Len(ret.idx) : ret.idx[i] \in 0..(Len(args0.input_data) - 1)
        /\ \A i, j \in 1..Len(ret.idx) : i < j => ret.idx[i] < ret.idx[j]
        /\ ~IndexError(args0.input_data, ret.idx)
        /\ LET sub == Take(args0.input_data, ret.idx)
           IN  /\ \A i, j \in 1..Len(sub) : i < j => sub[i].k < sub[j].k
               /\ \A i \in 1..Len(sub) : Occurs(sub[i], args0.input_data)

\* remove_nans returned [0, 2] from three examples, the middle one with a NaN
C14_Witness ==
    /\ pc = "returned"
    /\ Len(args0.input_data) = 3
    /\ ~NaNFree(args0.input_data[2])
    /\ ret.idx = <<0, 2>>

\* the name of a class: 1 is a flare, 0 is not
ClassName(c) == IF c = 1 THEN "Flare" ELSE "No Flare"

\* C15: on the drawn heatmap the tick label 'Flare' stands at the row and the
\* column of class 1 and 'No Flare' at those of class 0: the row of true class
\* c and the column of predicted class c both carry the name of c.
C15_TicksNameTheirClass ==
    fig.drawn =>
        \A c \in 0..1 :
            /\ fig.yticklabels[matshow_position(c, c).y] = ClassName(c)
            /\ fig.xticklabels[matshow_position(c, c).x] = ClassName(c)

====
